---- MODULE Spec2Model ----
(***************************************************************************)
(* The mind-map tree layout of components/MindMapView.tsx                  *)
(* (simpleTreeLayout, firstWalk, secondWalk) and the MindMapView component *)
(* that calls it from useMemo.                                             *)
(*                                                                         *)
(* A source tree (MindMapNode) is an arena: node 1 is the root, topic[i]   *)
(* is the node's topic, present[i] tells whether the node has a children   *)
(* field and kids[i] is the sequence of its children.  A                   *)
(* LayoutNode is a record; lnodes holds the LayoutNode objects of the      *)
(* running (or last) call, each under its id.                              *)
(*                                                                         *)
(* All widths are even (8 * length + 20 clamped to [80, 220], sums of such *)
(* and multiples of 40), so every "/ 2" of the source is exact and is      *)
(* modelled by integer division; WidthsEven checks this.                   *)
(***************************************************************************)
EXTENDS Integers, Sequences, FiniteSets, TLC

VARIABLES
    mindMap,    \* the mindMap prop of MindMapView (NoMap: null / undefined)
    pc,         \* where the component is: render, build, firstWalk, secondWalk, normalize, idle
    view,       \* what the component shows: none, placeholder, diagram, crashed
    error,      \* the exception the call threw: none, RangeError, TypeError
    idCounter,  \* simpleTreeLayout's idCounter
    lnodes,     \* the LayoutNode objects built by the call
    calls,      \* the pending calls of the running recursive function, next first
    bounds,     \* the bounds object of secondWalk: minX, maxX, maxY
    queue,      \* the queue of the flattening loop
    nodes,      \* the nodes array of the flattening loop
    result,     \* the value useMemo holds: nodes, width, height
    prev,       \* the layout returned for the previous, structurally identical tree
    mapRef,     \* the object reference of the mindMap prop (useMemo compares references)
    transform,  \* the transform state: x, y, k
    hoveredNodeId,  \* the hoveredNodeId state (Null: null)
    isPanning,  \* isPanning.current
    panStart,   \* panStart.current
    other,      \* the locals of a second, suspended invocation of simpleTreeLayout
    csv,        \* the rows addMindMapToCsv has written, first to last
    csvCalls,   \* the pending calls of addMindMapToCsv, next first
    csvPc,      \* the csv export: "idle", "walk" (inside addMindMapToCsv), "done"
    appTopic,   \* App: the topic state
    studyMaterials, \* App: the studyMaterials state
    isLoading,  \* App: the isLoading state
    appError,   \* App: the error state (App.tsx line 18)
    activeTab,  \* App: the activeTab state
    quizAnswers,    \* App: the quizAnswers state
    stored,     \* localStorage: the item 'learningBuddySession'
    requests,   \* the calls of generateStudyMaterials not yet settled: their topics
    appPc       \* App: "mount" before the effects of the first render, then "ready"

viewVars == <<transform, hoveredNodeId, isPanning, panStart>>

csvVars == <<csv, csvCalls, csvPc>>

appVars == <<appTopic, studyMaterials, isLoading, appError, activeTab, quizAnswers, stored,
             requests, appPc>>

vars == <<mindMap, pc, view, error, idCounter, lnodes, calls, bounds, queue, nodes, result, prev,
          mapRef, viewVars, other, csvVars, appVars>>

----------------------------------------------------------------------------
\* Configuration (MindMapView.tsx lines 6-9, 31-34)

nodeHeight == 50
verticalGap == 50
horizontalGap == 40
padding == 40
MIN_NODE_WIDTH == 80
MAX_NODE_WIDTH == 220
CHAR_WIDTH_MULTIPLIER == 8
HORIZONTAL_PADDING == 20

\* Bounds of the model: the nodes of a mind map, the nodes of a mind map whose
\* topics take every length of TopicLens (a larger one takes the shortest and the
\* longest only), and the nodes of a mind map that replaces another one.
\* ViewNodes: the nodes of a mind map shown while the pointer handlers run;
\* TwoNodes: the nodes of a mind map laid out by two interleaved invocations.
MaxNodes == 5
FullTopicNodes == 3
FollowNodes == 2
ViewNodes == 2
TwoNodes == 3
CsvNodes == 4

\* The depth of recursion at which the engine throws RangeError (Maximum call
\* stack size exceeded); above the depth of every tree enumerated.
StackLimit == MaxNodes + 2

\* Topic lengths enumerated: below MIN_NODE_WIDTH (2 * 8 + 20 = 36), between the
\* limits (12 * 8 + 20 = 116) and above MAX_NODE_WIDTH (30 * 8 + 20 = 260).
TopicLens == {2, 12, 30}

Null == -1

----------------------------------------------------------------------------
\* Source trees (types.ts MindMapNode)

StringTopic(len) == [kind |-> "string", length |-> len]
UndefinedTopic == [kind |-> "undefined", length |-> 0]

NoMap == [n |-> 0, topic |-> <<>>, present |-> <<>>, kids |-> <<>>]

Iota(n) == [i \in 1..n |-> i]

RECURSIVE AncOrSelf(_, _)
AncOrSelf(p, i) == IF i = 1 THEN {1} ELSE {i} \cup AncOrSelf(p, p[i])

\* Parent vectors of the ordered trees with n nodes numbered in pre-order.
ParentVectors(n) ==
    {p \in [2..n -> 1..n] : \A i \in 2..n : p[i] < i /\ p[i] \in AncOrSelf(p, i - 1)}

KidsOf(p, n, i) == SelectSeq(Iota(n), LAMBDA j : j > 1 /\ p[j] = i)

\* The tree of parent vector p with topics t; a leaf has no children field
\* (children?: of MindMapNode).
MakeTree(n, p, t) ==
    [n |-> n, topic |-> [i \in 1..n |-> t[i]],
     present |-> [i \in 1..n |-> KidsOf(p, n, i) # <<>>],
     kids |-> [i \in 1..n |-> KidsOf(p, n, i)]]

TopicLensOf(n) == IF n <= FullTopicNodes THEN TopicLens ELSE {2, 30}

ValidTrees ==
    UNION {{MakeTree(n, p, [i \in 1..n |-> StringTopic(l[i])]) :
              p \in ParentVectors(n), l \in [1..n -> TopicLensOf(n)]} : n \in 1..MaxNodes}

ShortTopics(n) == [i \in 1..n |-> StringTopic(2)]

\* A tree with one more child reference, from a node to itself or to one of its
\* ancestors: a node reachable from itself through children.
CyclicGraphs ==
    UNION {UNION {{[MakeTree(n, p, ShortTopics(n)) EXCEPT !.kids[a] = Append(@, b),
                                                          !.present[a] = TRUE] :
                      b \in AncOrSelf(p, a)} : a \in 1..n, p \in ParentVectors(n)}
             : n \in 1..MaxNodes}

\* A tree one of whose nodes has no topic string (topic missing or null).
UntypedTrees ==
    UNION {{[MakeTree(n, p, ShortTopics(n)) EXCEPT !.topic[a] = UndefinedTopic] :
              a \in 1..n, p \in ParentVectors(n)} : n \in 1..MaxNodes}

\* A tree one of whose nodes has the empty string as topic.
EmptyTopicTrees ==
    UNION {{[MakeTree(n, p, ShortTopics(n)) EXCEPT !.topic[a] = StringTopic(0)] :
              a \in 1..n, p \in ParentVectors(n)} : n \in 1..MaxNodes}

\* A tree each of whose nodes has a children field, empty for a leaf.
EmptyArrayTrees ==
    UNION {{[MakeTree(n, p, ShortTopics(n)) EXCEPT !.present = [i \in 1..n |-> TRUE]] :
              p \in ParentVectors(n)} : n \in 1..MaxNodes}

Inputs ==
    {NoMap} \cup ValidTrees \cup CyclicGraphs \cup UntypedTrees
            \cup EmptyTopicTrees \cup EmptyArrayTrees

FollowInputs == {m \in Inputs : m.n <= FollowNodes}

ViewInputs == {m \in EmptyArrayTrees : m.n <= ViewNodes}

TwoInputs == {m \in ValidTrees : m.n <= TwoNodes}

CsvInputs == {m \in ValidTrees \cup EmptyArrayTrees : m.n <= CsvNodes}

RECURSIVE Reach(_, _, _)
Reach(m, frontier, seen) ==
    IF frontier \subseteq seen THEN seen
    ELSE Reach(m, UNION {{m.kids[i][k] : k \in 1..Len(m.kids[i])} : i \in frontier},
               seen \cup frontier)

\* A node is reachable from itself through children.
IsCyclic(m) ==
    \E i \in 1..m.n :
        i \in Reach(m, {m.kids[i][k] : k \in 1..Len(m.kids[i])}, {})

IsTyped(m) == \A i \in 1..m.n : m.topic[i].kind = "string"

----------------------------------------------------------------------------
\* buildLayoutTree (lines 29-54)

Max(a, b) == IF a >= b THEN a ELSE b
Min(a, b) == IF a <= b THEN a ELSE b

\* line 37: node.topic.length * CHAR_WIDTH_MULTIPLIER + HORIZONTAL_PADDING
CalculatedWidth(topic) == topic.length * CHAR_WIDTH_MULTIPLIER + HORIZONTAL_PADDING

\* line 38
DynamicNodeWidth(topic) == Max(MIN_NODE_WIDTH, Min(MAX_NODE_WIDTH, CalculatedWidth(topic)))

InitialYNoGap(depth) == depth * nodeHeight

\* line 47
InitialY(depth) == depth * (nodeHeight + verticalGap)

\* lines 41-51: the LayoutNode object literal
NewLayoutNode(id, node, topic, parent, depth) ==
    [id |-> id, node |-> node, parent |-> parent, children |-> <<>>,
     x |-> 0, y |-> InitialY(depth), width |-> DynamicNodeWidth(topic),
     height |-> nodeHeight, finalX |-> 0]

\* line 56: layoutRoot, the object buildLayoutTree(root) returns
LayoutRoot(ln) == CHOOSE id \in DOMAIN ln : ln[id].parent = Null

BuildCall(node, parent, depth) ==
    [fn |-> "buildLayoutTree", node |-> node, parent |-> parent, depth |-> depth, parentX |-> 0]

\* line 52: node.children || []
ChildrenOf(m, node) == IF m.present[node] THEN m.kids[node] ELSE <<>>

ChildBuildCallsReversed(m, node, parent, depth) ==
    LET ch == ChildrenOf(m, node)
    IN  [k \in 1..Len(ch) |-> BuildCall(ch[Len(ch) + 1 - k], parent, depth + 1)]

\* line 52: one recursive call per child, in the order of node.children
ChildBuildCalls(m, node, parent, depth) ==
    LET ch == ChildrenOf(m, node)
    IN  [k \in 1..Len(ch) |-> BuildCall(ch[k], parent, depth + 1)]

SourceChildrenDefaulted(m, node) == [m EXCEPT !.present[node] = TRUE]

\* lines 36-52: buildLayoutTree reads node.topic and node.children and writes
\* only to the new layoutNode; the source tree after a call is the one before it.
SourceAfterBuild(m, node) == m

KeptIdCounter(old) == old

\* line 27: let idCounter = 0, local to each call of simpleTreeLayout
FreshIdCounter(old) == 0

----------------------------------------------------------------------------
\* firstWalk (lines 77-87)

WalkCall(fn, node, parentX) ==
    [fn |-> fn, node |-> node, parent |-> Null, depth |-> 0, parentX |-> parentX]

Half(v) == v \div 2

RECURSIVE SumWidths(_, _)
\* line 80: children.reduce((acc, child) => acc + child.width, 0)
SumWidths(ln, ch) ==
    IF ch = <<>> THEN 0 ELSE ln[Head(ch)].width + SumWidths(ln, Tail(ch))

TotalChildrenWidthNoGaps(ln, id) == SumWidths(ln, ln[id].children)

\* line 80
TotalChildrenWidth(ln, id) ==
    SumWidths(ln, ln[id].children) + (Len(ln[id].children) - 1) * horizontalGap

AdvanceNoGap(currentX, w) == currentX + w

\* line 84: currentX += child.width + horizontalGap
Advance(currentX, w) == currentX + w + horizontalGap

StartXZero(total) == 0

\* line 81: let currentX = -totalChildrenWidth / 2
StartX(total) == -Half(total)

ChildCenterLeft(currentX, w) == currentX

\* line 83: child.x = currentX + child.width / 2
ChildCenter(currentX, w) == currentX + Half(w)

RECURSIVE PlaceChildren(_, _, _)
\* lines 82-85: the loop over node.children
PlaceChildren(ln, ch, currentX) ==
    IF ch = <<>> THEN ln
    ELSE LET c == Head(ch)
             w == ln[c].width
         IN  PlaceChildren([ln EXCEPT ![c].x = ChildCenter(currentX, w)],
                           Tail(ch), Advance(currentX, w))

OwnWidth(own, total) == own

\* line 86: Math.max(node.width, totalChildrenWidth)
SubtreeWidth(own, total) == Max(own, total)

\* lines 80-86: the body of firstWalk after the recursion into the children
PlaceAndWiden(ln, id) ==
    LET total == TotalChildrenWidth(ln, id)
        placed == PlaceChildren(ln, ln[id].children, StartX(total))
    IN  [placed EXCEPT ![id].width = SubtreeWidth(@, total)]

----------------------------------------------------------------------------
\* secondWalk (lines 89-96)

InitialBounds == [minX |-> 0, maxX |-> 0, maxY |-> 0]

FinalXNoParent(parentX, x) == x

\* line 90: node.finalX = parentX + node.x
FinalX(parentX, x) == parentX + x

\* lines 91-93
GrowBounds(b, nd) ==
    [minX |-> Min(b.minX, nd.finalX - Half(nd.width)),
     maxX |-> Max(b.maxX, nd.finalX + Half(nd.width)),
     maxY |-> Max(b.maxY, nd.y)]

----------------------------------------------------------------------------
\* simpleTreeLayout: normalization and the returned size (lines 61-74)

ShiftXNoMin(finalX, minX) == finalX + padding

ShiftYTwice(y) == y + padding + padding

\* line 65
ShiftX(finalX, minX) == finalX - minX + padding

\* line 66
ShiftY(y) == y + padding

TotalWidthOnePad(b) == b.maxX - b.minX + padding

\* line 71
TotalWidth(b) == b.maxX - b.minX + padding * 2

TotalHeightNoNode(b) == b.maxY + padding * 2

\* line 72
TotalHeight(b) == b.maxY + nodeHeight + padding * 2

EnqueueFront(q, ch) == ch \o q

\* line 68: queue.push(...node.children)
Enqueue(q, ch) == q \o ch

\* line 108: the value returned when there is no mind map
EmptyResult == [nodes |-> <<>>, width |-> 0, height |-> 0]

NoPrev == [set |-> FALSE, lnodes |-> <<>>, result |-> EmptyResult]

----------------------------------------------------------------------------
\* MindMapView: the component's state (lines 100-105) and useMemo (lines 107-110)

\* A reference other than r: the prop is another object.
NewRef(r) == 1 - r

MemoNeverHit(prevDep, dep) == FALSE

\* line 110: the dependency array [mindMap], compared by reference
MemoHit(prevDep, dep) == prevDep = dep

NeverAbsent(m) == FALSE

\* lines 108, 114: !mindMap
Absent(m) == m.n = 0

\* The zoom scale transform.k is base * 1.1 ^ exp, with base 1 (the initial
\* scale, line 101), 3 or 0.2 (the limits of line 159).
ScaleOne == [base |-> "1", exp |-> 0]
ScaleMax == [base |-> "3", exp |-> 0]
ScaleMin == [base |-> "0.2", exp |-> 0]

\* 1.1 ^ 11 < 3 < 1.1 ^ 12, 1.1 ^ 16 < 5 < 1.1 ^ 17 and 1.1 ^ 28 < 15 < 1.1 ^ 29
ExpBelow3 == 11
ExpBelow5 == 16
ExpBelow15 == 28

\* s > 3
Above3(s) ==
    \/ s.base = "1" /\ s.exp > ExpBelow3
    \/ s.base = "3" /\ s.exp > 0
    \/ s.base = "0.2" /\ s.exp > ExpBelow15

\* s < 0.2
Below02(s) ==
    \/ s.base = "1" /\ s.exp < -ExpBelow5
    \/ s.base = "3" /\ s.exp < -ExpBelow15
    \/ s.base = "0.2" /\ s.exp < 0

\* line 158: transform.k * scaleFactor for deltaY < 0, transform.k / scaleFactor otherwise
NewScale(k, deltaYNegative) == [k EXCEPT !.exp = IF deltaYNegative THEN @ + 1 ELSE @ - 1]

UnclampedScale(s) == s

\* line 159: Math.max(0.2, Math.min(newScale, 3))
ClampedScale(s) == IF Above3(s) THEN ScaleMax ELSE IF Below02(s) THEN ScaleMin ELSE s

\* Pointer coordinates, and the values of transform.x and transform.y: these are
\* real numbers computed from the pointer position and the screen matrix
\* (lines 161-168, 182-184); the model keeps them as any value of Coords.
Coords == {0, 1}

InitialLocals ==
    [pc |-> "render", view |-> "none", error |-> "none", idCounter |-> 0, lnodes |-> <<>>,
     calls |-> <<>>, bounds |-> InitialBounds, queue |-> <<>>, nodes |-> <<>>,
     result |-> EmptyResult]

----------------------------------------------------------------------------
\* App (App.tsx): the values of its state

\* studyMaterials: null, or the materials generated for a topic
NoMaterials == [set |-> FALSE, for |-> ""]
MaterialsFor(t) == [set |-> TRUE, for |-> t]

\* The texts submitted through TopicInput: two topics, the empty text and a blank.
Topics == {"Photosynthesis", "The Roman Empire"}
TopicTexts == Topics \cup {"", " "}

\* String.prototype.trim on these texts
Trim(t) == IF t = " " THEN "" ELSE t

NoError == "null"
EnterTopicError == "Please enter a topic."
GenerateError == "Failed to generate study materials."

Tabs == {"summary", "flashcards", "quiz", "mindmap"}

\* quizAnswers: the answered questions as pairs <<index, option>>, for a quiz of
\* one question with two options
QuizIndexes == {0}
QuizOptions == {"A", "B"}

\* QuizView line 16: { ...answers, [questionIndex]: answer }
AnswerChange(answers, q, a) == {p \in answers : p[1] # q} \cup {<<q, a>>}

\* localStorage.getItem('learningBuddySession'): null, or the text of an item
NoEntry == [kind |-> "none", topic |-> "", studyMaterials |-> NoMaterials, quizAnswers |-> {}]

\* lines 44-49: JSON.stringify({topic, studyMaterials, quizAnswers}); JSON.parse
\* of the text gives these three values back (line 27)
SessionEntry(t, m, q) == [kind |-> "session", topic |-> t, studyMaterials |-> m, quizAnswers |-> q]

\* A text JSON.parse throws on, or that parses to null (lines 27, 34)
CorruptEntry == [NoEntry EXCEPT !.kind = "corrupt"]

\* A text that parses to an object without topic or without studyMaterials
IncompleteEntry == [NoEntry EXCEPT !.kind = "incomplete"]

\* What the store may hold when the page is opened.
StoredEntries ==
    {NoEntry, CorruptEntry, IncompleteEntry}
        \cup {SessionEntry(t, MaterialsFor(t), q) :
                t \in Topics, q \in {{}} \cup {{<<i, a>>} : i \in QuizIndexes, a \in QuizOptions}}

SaveEffectUnguarded(old, t, m, q, ok) == IF ok THEN SessionEntry(t, m, q) ELSE old

\* The save effect (lines 41-54), run after a render in which topic,
\* studyMaterials or quizAnswers changed; setItem may throw (line 50).
SaveEffect(old, t, m, q, ok) ==
    IF t # "" /\ m.set
    THEN IF ok THEN SessionEntry(t, m, q) ELSE old
    ELSE old

InputNeverDisabled(loading) == FALSE

\* TopicInput lines 24, 28: the input and the submit button are disabled while
\* isLoading, so the form cannot be submitted.
InputDisabled(loading) == loading

RemoveAt(seq, i) == [k \in 1..(Len(seq) - 1) |-> IF k < i THEN seq[k] ELSE seq[k + 1]]

----------------------------------------------------------------------------
\* The state after construction: the component is about to render its prop.

InitLayout ==
    /\ mindMap \in Inputs
    /\ pc = "render"
    /\ view = "none"
    /\ error = "none"
    /\ idCounter = 0
    /\ lnodes = <<>>
    /\ calls = <<>>
    /\ bounds = InitialBounds
    /\ queue = <<>>
    /\ nodes = <<>>
    /\ result = EmptyResult
    /\ prev = NoPrev
    /\ mapRef = 0
    /\ transform = [x |-> 0, y |-> 0, k |-> ScaleOne]
    /\ hoveredNodeId = Null
    /\ isPanning = FALSE
    /\ panStart = [x |-> 0, y |-> 0]
    /\ other = InitialLocals

\* No csv export has started.
CsvIdle ==
    /\ csv = <<>>
    /\ csvCalls = <<>>
    /\ csvPc = "idle"

\* App.tsx lines 14-19: the initial values of the state, with nothing stored.
AppUnmounted ==
    /\ appTopic = ""
    /\ studyMaterials = NoMaterials
    /\ isLoading = FALSE
    /\ appError = "null"
    /\ activeTab = "summary"
    /\ quizAnswers = {}
    /\ requests = <<>>
    /\ appPc = "mount"

Init == InitLayout /\ CsvIdle /\ AppUnmounted /\ stored = NoEntry

\* MindMapView lines 107-116: the useMemo callback.  Without a mind map it returns
\* the empty result and the component renders the placeholder; otherwise it calls
\* simpleTreeLayout (lines 26-28, 56), whose first call is buildLayoutTree(root).
Render ==
    /\ pc = "render"
    /\ IF Absent(mindMap)
       THEN /\ result' = EmptyResult
            /\ view' = "placeholder"
            /\ pc' = "idle"
            /\ UNCHANGED <<idCounter, calls>>
       ELSE /\ idCounter' = FreshIdCounter(idCounter)
            /\ calls' = <<BuildCall(1, Null, 0)>>
            /\ pc' = "build"
            /\ UNCHANGED <<result, view>>
    /\ UNCHANGED <<mindMap, error, lnodes, bounds, queue, nodes, prev>>
    /\ UNCHANGED <<mapRef, viewVars, other, csvVars, appVars>>

\* An exception thrown inside simpleTreeLayout: nothing catches it in
\* simpleTreeLayout or in the useMemo callback (lines 107-110), so the render of
\* MindMapView throws; the LayoutNode objects built so far are unreachable.
Throw(e) ==
    /\ error' = e
    /\ view' = "crashed"
    /\ pc' = "idle"
    /\ lnodes' = <<>>
    /\ calls' = <<>>
    /\ UNCHANGED <<mindMap, idCounter, bounds, queue, nodes, result, prev>>

\* One call of buildLayoutTree (lines 29-54), up to its recursion into the
\* children.  The new object is entered in its parent's children at once; the
\* source assigns the whole children array when the map returns (line 52), and
\* nothing reads it in between.  The last return starts firstWalk (line 58).
BuildLayoutTree ==
    /\ pc = "build"
    /\ UNCHANGED <<mapRef, viewVars, other, csvVars, appVars>>
    /\ LET c == Head(calls)
           topic == mindMap.topic[c.node]
       IN  IF c.depth >= StackLimit
           THEN Throw("RangeError")
           ELSE IF topic.kind # "string"
           THEN Throw("TypeError")
           ELSE LET layoutNode == NewLayoutNode(idCounter, c.node, topic, c.parent, c.depth)
                    linked == IF c.parent = Null THEN lnodes
                              ELSE [lnodes EXCEPT ![c.parent].children = Append(@, idCounter)]
                    rest == ChildBuildCalls(mindMap, c.node, idCounter, c.depth) \o Tail(calls)
                IN  /\ lnodes' = (idCounter :> layoutNode) @@ linked
                    /\ idCounter' = idCounter + 1
                    /\ IF rest = <<>>
                       THEN /\ calls' = <<WalkCall("firstWalk", LayoutRoot(lnodes'), 0)>>
                            /\ pc' = "firstWalk"
                       ELSE /\ calls' = rest
                            /\ pc' = "build"
                    /\ mindMap' = SourceAfterBuild(mindMap, c.node)
                    /\ UNCHANGED <<view, error, bounds, queue, nodes, result, prev>>

\* One call of firstWalk (lines 77-87).  "firstWalk" is the entry of a call: a
\* leaf returns (line 78), another node recurses into its children (line 79) and
\* then runs lines 80-86 ("place").  The last return starts secondWalk (line 59).
FirstWalk ==
    /\ pc = "firstWalk"
    /\ LET c == Head(calls)
           ch == lnodes[c.node].children
           rest == IF c.fn = "place" \/ ch = <<>> THEN Tail(calls)
                   ELSE [k \in 1..Len(ch) |-> WalkCall("firstWalk", ch[k], 0)]
                        \o <<WalkCall("place", c.node, 0)>> \o Tail(calls)
       IN  /\ lnodes' = IF c.fn = "place" THEN PlaceAndWiden(lnodes, c.node) ELSE lnodes
           /\ IF rest = <<>>
              THEN /\ calls' = <<WalkCall("secondWalk", LayoutRoot(lnodes), 0)>>
                   /\ bounds' = InitialBounds
                   /\ pc' = "secondWalk"
              ELSE /\ calls' = rest
                   /\ pc' = "firstWalk"
                   /\ UNCHANGED bounds
    /\ UNCHANGED <<mindMap, view, error, idCounter, queue, nodes, result, prev>>
    /\ UNCHANGED <<mapRef, viewVars, other, csvVars, appVars>>

\* One call of secondWalk (lines 89-96), up to its recursion into the children.
\* The last return starts the flattening loop (lines 61-62).
SecondWalk ==
    /\ pc = "secondWalk"
    /\ LET c == Head(calls)
           finalX == FinalX(c.parentX, lnodes[c.node].x)
           placed == [lnodes EXCEPT ![c.node].finalX = finalX]
           ch == lnodes[c.node].children
           rest == [k \in 1..Len(ch) |-> WalkCall("secondWalk", ch[k], finalX)] \o Tail(calls)
       IN  /\ lnodes' = placed
           /\ bounds' = GrowBounds(bounds, placed[c.node])
           /\ IF rest = <<>>
              THEN /\ calls' = <<>>
                   /\ nodes' = <<>>
                   /\ queue' = <<LayoutRoot(lnodes)>>
                   /\ pc' = "normalize"
              ELSE /\ calls' = rest
                   /\ pc' = "secondWalk"
                   /\ UNCHANGED <<nodes, queue>>
    /\ UNCHANGED <<mindMap, view, error, idCounter, result, prev>>
    /\ UNCHANGED <<mapRef, viewVars, other, csvVars, appVars>>

\* One iteration of the while loop (lines 63-69).
Normalize ==
    /\ pc = "normalize"
    /\ queue # <<>>
    /\ LET id == Head(queue)
       IN  /\ lnodes' = [lnodes EXCEPT ![id].finalX = ShiftX(@, bounds.minX),
                                       ![id].y = ShiftY(@)]
           /\ nodes' = Append(nodes, id)
           /\ queue' = Enqueue(Tail(queue), lnodes[id].children)
    /\ UNCHANGED <<mindMap, pc, view, error, idCounter, calls, bounds, result, prev>>
    /\ UNCHANGED <<mapRef, viewVars, other, csvVars, appVars>>

\* Lines 71-74: the loop has ended; simpleTreeLayout returns, useMemo keeps the
\* value and the component renders the diagram.
Return ==
    /\ pc = "normalize"
    /\ queue = <<>>
    /\ result' = [nodes |-> nodes, width |-> TotalWidth(bounds), height |-> TotalHeight(bounds)]
    /\ view' = "diagram"
    /\ pc' = "idle"
    /\ UNCHANGED <<mindMap, error, idCounter, lnodes, calls, bounds, queue, nodes, prev>>
    /\ UNCHANGED <<mapRef, viewVars, other, csvVars, appVars>>

\* The value kept of a layout: the objects and the returned record.
Kept == [set |-> TRUE, lnodes |-> lnodes, result |-> result]

\* useMemo's dependency [mindMap] (line 110): a new mindMap reference whose tree
\* is structurally identical to the one shown (same shape, same topics) is laid
\* out again; the layout it replaces is remembered in prev.
Relayout ==
    /\ pc = "idle"
    /\ view = "diagram"
    /\ prev' = Kept
    /\ mapRef' = NewRef(mapRef)
    /\ pc' = "render"
    /\ lnodes' = <<>>
    /\ nodes' = <<>>
    /\ UNCHANGED <<mindMap, view, error, idCounter, calls, bounds, queue, result>>
    /\ UNCHANGED <<viewVars, other, csvVars, appVars>>

\* useMemo's dependency [mindMap] (line 110): another mind map arrives.  The
\* layout it replaces is dropped.  A component whose render threw is unmounted.
NewMindMap ==
    /\ pc = "idle"
    /\ view # "crashed"
    /\ \E m \in FollowInputs :
        /\ m # mindMap
        /\ mindMap' = m
    /\ pc' = "render"
    /\ view' = "none"
    /\ lnodes' = <<>>
    /\ nodes' = <<>>
    /\ bounds' = InitialBounds
    /\ result' = EmptyResult
    /\ prev' = NoPrev
    /\ mapRef' = NewRef(mapRef)
    /\ UNCHANGED <<error, idCounter, calls, queue>>
    /\ UNCHANGED <<viewVars, other, csvVars, appVars>>

Next ==
    \/ Render
    \/ BuildLayoutTree
    \/ FirstWalk
    \/ SecondWalk
    \/ Normalize
    \/ Return
    \/ Relayout
    \/ NewMindMap

Spec == Init /\ [][Next]_vars

----------------------------------------------------------------------------
\* The handlers of the rendered diagram (lines 118-191, 239-240).  They run
\* between renders, when the svg is mounted.

Shown == pc = "idle" /\ view = "diagram"

\* The render that follows a state update: useMemo (lines 107-110) is given the
\* same mindMap object and returns the value it holds; it would call
\* simpleTreeLayout again only for another reference.
ReRender ==
    IF MemoHit(mapRef, mapRef)
    THEN UNCHANGED <<pc, lnodes, nodes>>
    ELSE /\ pc' = "render"
         /\ lnodes' = <<>>
         /\ nodes' = <<>>

LayoutKept == UNCHANGED <<mindMap, view, error, idCounter, calls, bounds, queue, result, prev,
                          mapRef, other, csvVars, appVars>>

\* handleWheel (lines 151-171)
HandleWheel ==
    /\ Shown
    /\ \E deltaYNegative \in BOOLEAN, newX \in Coords, newY \in Coords :
        transform' = [x |-> newX, y |-> newY,
                      k |-> ClampedScale(NewScale(transform.k, deltaYNegative))]
    /\ ReRender
    /\ LayoutKept
    /\ UNCHANGED <<hoveredNodeId, isPanning, panStart>>

\* handleMouseDown (lines 173-178); a press on a node returns at line 174
HandleMouseDown ==
    /\ Shown
    /\ \E onSvg \in BOOLEAN, clientX \in Coords, clientY \in Coords :
        IF onSvg
        THEN isPanning' = TRUE /\ panStart' = [x |-> clientX, y |-> clientY]
        ELSE UNCHANGED <<isPanning, panStart>>
    /\ LayoutKept
    /\ UNCHANGED <<pc, lnodes, nodes, transform, hoveredNodeId>>

\* handleMouseMove (lines 180-186)
HandleMouseMove ==
    /\ Shown
    /\ IF isPanning
       THEN /\ \E clientX \in Coords, clientY \in Coords, newX \in Coords, newY \in Coords :
                /\ transform' = [transform EXCEPT !.x = newX, !.y = newY]
                /\ panStart' = [x |-> clientX, y |-> clientY]
            /\ ReRender
       ELSE UNCHANGED <<transform, panStart, pc, lnodes, nodes>>
    /\ LayoutKept
    /\ UNCHANGED <<hoveredNodeId, isPanning>>

\* handleMouseUpOrLeave (lines 188-191)
HandleMouseUpOrLeave ==
    /\ Shown
    /\ isPanning' = FALSE
    /\ LayoutKept
    /\ UNCHANGED <<pc, lnodes, nodes, transform, hoveredNodeId, panStart>>

\* onMouseEnter / onMouseLeave of a node's group (lines 239-240)
Hover ==
    /\ Shown
    /\ \E id \in {result.nodes[k] : k \in 1..Len(result.nodes)} \cup {Null} :
        hoveredNodeId' = id
    /\ ReRender
    /\ LayoutKept
    /\ UNCHANGED <<transform, isPanning, panStart>>

\* handleExportSvg (lines 118-149): serializes a clone of the svg; no state of
\* the component is written.
HandleExportSvg ==
    /\ Shown
    /\ UNCHANGED vars

NextView ==
    \/ Render
    \/ BuildLayoutTree
    \/ FirstWalk
    \/ SecondWalk
    \/ Normalize
    \/ Return
    \/ Relayout
    \/ HandleWheel
    \/ HandleMouseDown
    \/ HandleMouseMove
    \/ HandleMouseUpOrLeave
    \/ Hover
    \/ HandleExportSvg

InitView == Init /\ mindMap \in ViewInputs

SpecView == InitView /\ [][NextView]_vars

----------------------------------------------------------------------------
\* Two invocations of simpleTreeLayout on the same tree, their steps
\* interleaved.  Everything an invocation writes is created inside it: idCounter
\* (line 27), the LayoutNode objects (line 41), bounds (line 59), nodes and queue
\* (lines 61-62); Switch suspends the running invocation and resumes the other.

Locals ==
    [pc |-> pc, view |-> view, error |-> error, idCounter |-> idCounter, lnodes |-> lnodes,
     calls |-> calls, bounds |-> bounds, queue |-> queue, nodes |-> nodes, result |-> result]

SharedIdCounter(saved, current) == current

\* line 27: idCounter is a variable of the invocation; the resumed invocation
\* finds its own value.
ResumedIdCounter(saved, current) == saved

Switch ==
    /\ other' = Locals
    /\ pc' = other.pc
    /\ view' = other.view
    /\ error' = other.error
    /\ idCounter' = ResumedIdCounter(other.idCounter, idCounter)
    /\ lnodes' = other.lnodes
    /\ calls' = other.calls
    /\ bounds' = other.bounds
    /\ queue' = other.queue
    /\ nodes' = other.nodes
    /\ result' = other.result
    /\ UNCHANGED <<mindMap, prev, mapRef, viewVars, csvVars, appVars>>

NextTwo ==
    \/ Render
    \/ BuildLayoutTree
    \/ FirstWalk
    \/ SecondWalk
    \/ Normalize
    \/ Return
    \/ Switch

InitTwo == Init /\ mindMap \in TwoInputs

SpecTwo == InitTwo /\ [][NextTwo]_vars

----------------------------------------------------------------------------
\* The csv exporter: addMindMapToCsv (src/unnamed/part_003 lines 200-208), which
\* exportToCsv calls with the mind map of the study materials (line 240).

CsvCall(node, level) == [node |-> node, level |-> level]

\* line 201: the row MindMap,<level>,<the escaped topic of node>
CsvRow(node, level) == [type |-> "MindMap", level |-> level, node |-> node]

\* line 202: if (node.children)
CsvChildren(m, node) == IF m.present[node] THEN m.kids[node] ELSE <<>>

CsvChildCallsSameLevel(m, node, level) ==
    [k \in 1..Len(CsvChildren(m, node)) |-> CsvCall(CsvChildren(m, node)[k], level)]

\* lines 203-205: forEach child, addMindMapToCsv(child, level + 1)
CsvChildCalls(m, node, level) ==
    [k \in 1..Len(CsvChildren(m, node)) |-> CsvCall(CsvChildren(m, node)[k], level + 1)]

\* exportToCsv line 240: addMindMapToCsv(mindMap), level defaulting to 0
ExportToCsv ==
    /\ csvPc = "idle"
    /\ ~Absent(mindMap)
    /\ csv' = <<>>
    /\ csvCalls' = <<CsvCall(1, 0)>>
    /\ csvPc' = "walk"
    /\ UNCHANGED <<mindMap, pc, view, error, idCounter, lnodes, calls, bounds, queue, nodes,
                   result, prev, mapRef, viewVars, other, appVars>>

\* One call of addMindMapToCsv up to its recursion into the children: the row of
\* the node is written (line 201) before the rows of its children are appended
\* (line 204).  The last return hands the text to exportToCsv.
AddMindMapToCsv ==
    /\ csvPc = "walk"
    /\ LET c == Head(csvCalls)
           rest == CsvChildCalls(mindMap, c.node, c.level) \o Tail(csvCalls)
       IN  /\ csv' = Append(csv, CsvRow(c.node, c.level))
           /\ csvCalls' = rest
           /\ csvPc' = IF rest = <<>> THEN "done" ELSE "walk"
    /\ UNCHANGED <<mindMap, pc, view, error, idCounter, lnodes, calls, bounds, queue, nodes,
                   result, prev, mapRef, viewVars, other, appVars>>

NextCsv ==
    \/ Render
    \/ BuildLayoutTree
    \/ FirstWalk
    \/ SecondWalk
    \/ Normalize
    \/ Return
    \/ ExportToCsv
    \/ AddMindMapToCsv

InitCsv == Init /\ mindMap \in CsvInputs

SpecCsv == InitCsv /\ [][NextCsv]_vars

----------------------------------------------------------------------------
\* App (App.tsx)

LayoutIdle == UNCHANGED <<mindMap, pc, view, error, idCounter, lnodes, calls, bounds, queue,
                          nodes, result, prev, mapRef, viewVars, other, csvVars>>

\* The effects of the first render.  The load effect (lines 23-38) restores a
\* stored session or removes an item it cannot read; the save effect of that
\* render sees topic '' and writes nothing (line 42); after the render with the
\* restored values it writes them again (lines 44-49).
Mount ==
    /\ appPc = "mount"
    /\ appPc' = "ready"
    /\ IF stored.kind = "session" /\ stored.topic # "" /\ stored.studyMaterials.set
       THEN /\ appTopic' = stored.topic
            /\ studyMaterials' = stored.studyMaterials
            /\ quizAnswers' = stored.quizAnswers
            /\ \E ok \in BOOLEAN :
                stored' = SaveEffect(stored, appTopic', studyMaterials', quizAnswers', ok)
       ELSE /\ stored' = IF stored.kind = "corrupt" THEN NoEntry ELSE stored
            /\ UNCHANGED <<appTopic, studyMaterials, quizAnswers>>
    /\ UNCHANGED <<isLoading, appError, activeTab, requests>>
    /\ LayoutIdle

\* TopicInput.handleSubmit (lines 11-14) and handleGenerate up to its await
\* (lines 57-71), followed by the save effect of the render.
HandleGenerate ==
    /\ appPc = "ready"
    /\ ~InputDisabled(isLoading)
    /\ \E newTopic \in TopicTexts :
        IF Trim(newTopic) = ""
        THEN /\ appError' = EnterTopicError
             /\ UNCHANGED <<appTopic, studyMaterials, isLoading, activeTab, quizAnswers, stored,
                            requests>>
        ELSE /\ isLoading' = TRUE
             /\ appError' = NoError
             /\ studyMaterials' = NoMaterials
             /\ appTopic' = newTopic
             /\ activeTab' = "summary"
             /\ quizAnswers' = {}
             /\ requests' = Append(requests, newTopic)
             /\ \E ok \in BOOLEAN :
                 stored' = SaveEffect(stored, appTopic', studyMaterials', quizAnswers', ok)
    /\ UNCHANGED appPc
    /\ LayoutIdle

\* generateStudyMaterials resolves: lines 72 and 77, then the save effect.
Resolve ==
    /\ \E i \in 1..Len(requests) :
        /\ studyMaterials' = MaterialsFor(requests[i])
        /\ requests' = RemoveAt(requests, i)
    /\ isLoading' = FALSE
    /\ \E ok \in BOOLEAN :
        stored' = SaveEffect(stored, appTopic, studyMaterials', quizAnswers, ok)
    /\ UNCHANGED <<appTopic, appError, activeTab, quizAnswers, appPc>>
    /\ LayoutIdle

\* generateStudyMaterials rejects: lines 73-77.
Reject ==
    /\ \E i \in 1..Len(requests) : requests' = RemoveAt(requests, i)
    /\ appError' = GenerateError
    /\ isLoading' = FALSE
    /\ UNCHANGED <<appTopic, studyMaterials, activeTab, quizAnswers, stored, appPc>>
    /\ LayoutIdle

\* StudyTabs line 26: a tab is clicked; the tabs are rendered with the materials
\* (App.tsx lines 128-138).
SetActiveTab ==
    /\ appPc = "ready"
    /\ studyMaterials.set
    /\ \E tab \in Tabs : activeTab' = tab
    /\ UNCHANGED <<appTopic, studyMaterials, isLoading, appError, quizAnswers, stored, requests,
                   appPc>>
    /\ LayoutIdle

\* QuizView.handleAnswerChange (lines 15-17) through onAnswerChange =
\* setQuizAnswers, then the save effect.
HandleAnswerChange ==
    /\ appPc = "ready"
    /\ studyMaterials.set
    /\ activeTab = "quiz"
    /\ \E q \in QuizIndexes, a \in QuizOptions : quizAnswers' = AnswerChange(quizAnswers, q, a)
    /\ \E ok \in BOOLEAN :
        stored' = SaveEffect(stored, appTopic, studyMaterials, quizAnswers', ok)
    /\ UNCHANGED <<appTopic, studyMaterials, isLoading, appError, activeTab, requests, appPc>>
    /\ LayoutIdle

\* QuizView.resetQuiz (lines 26-29), then the save effect.  The button is shown
\* with the results; showResults, local to QuizView, is left out, so the reset is
\* possible whenever the quiz is shown.
ResetQuiz ==
    /\ appPc = "ready"
    /\ studyMaterials.set
    /\ activeTab = "quiz"
    /\ quizAnswers' = {}
    /\ \E ok \in BOOLEAN :
        stored' = SaveEffect(stored, appTopic, studyMaterials, quizAnswers', ok)
    /\ UNCHANGED <<appTopic, studyMaterials, isLoading, appError, activeTab, requests, appPc>>
    /\ LayoutIdle

NextApp ==
    \/ Mount
    \/ HandleGenerate
    \/ Resolve
    \/ Reject
    \/ SetActiveTab
    \/ HandleAnswerChange
    \/ ResetQuiz

InitApp == InitLayout /\ mindMap = NoMap /\ CsvIdle /\ AppUnmounted /\ stored \in StoredEntries

SpecApp == InitApp /\ [][NextApp]_vars

----------------------------------------------------------------------------
\* Well-formedness of the model

Obj(id) == lnodes[id]
Ids == DOMAIN lnodes

\* Every width is even, so the integer halves are the halves of the source.
WidthsEven == \A id \in Ids : Obj(id).width % 2 = 0

TypeOK ==
    /\ pc \in {"render", "build", "firstWalk", "secondWalk", "normalize", "idle"}
    /\ view \in {"none", "placeholder", "diagram", "crashed"}
    /\ error \in {"none", "RangeError", "TypeError"}
    /\ idCounter \in Nat
    /\ \A id \in Ids : Obj(id).id = id

----------------------------------------------------------------------------
\* The layout returned by simpleTreeLayout, as the renderer draws it
\* (lines 232-251: a rect of width node.width and height nodeHeight at
\* (finalX - width / 2, y)).

Done == pc = "idle" /\ view = "diagram"

Left(id) == Obj(id).finalX - Half(Obj(id).width)
Right(id) == Obj(id).finalX + Half(Obj(id).width)

Siblings(a, b) == a # b /\ Obj(a).parent # Null /\ Obj(a).parent = Obj(b).parent

\* The closed intervals [Left, Right] of a and b have no common point.
ApartX(a, b) == Right(a) < Left(b) \/ Right(b) < Left(a)

\* The closed intervals [y, y + nodeHeight] of a and b have no common point.
ApartY(a, b) == Obj(a).y + nodeHeight < Obj(b).y \/ Obj(b).y + nodeHeight < Obj(a).y

RECURSIVE Depth(_)
Depth(id) == IF Obj(id).parent = Null THEN 0 ELSE 1 + Depth(Obj(id).parent)

SetMin(S) == CHOOSE v \in S : \A w \in S : v <= w
SetMax(S) == CHOOSE v \in S : \A w \in S : v >= w

----------------------------------------------------------------------------
\* C1: in the result of simpleTreeLayout, the closed horizontal intervals
\* [finalX - width/2, finalX + width/2] of two distinct siblings (width being the
\* subtree width) do not intersect.
C1_SiblingIntervalsDisjoint ==
    Done => \A a \in Ids : \A b \in Ids : Siblings(a, b) => ApartX(a, b)

\* A returned layout with two siblings, one of them widened by its own children.
C1_Witness ==
    /\ Done
    /\ \E a \in Ids : \E b \in Ids :
        /\ Siblings(a, b)
        /\ Obj(a).children # <<>>
        /\ Obj(a).width > DynamicNodeWidth(mindMap.topic[Obj(a).node])

\* C2: two distinct nodes at the same depth, siblings or not, are drawn at the
\* same y as boxes that do not overlap horizontally, and no two drawn boxes of
\* the diagram overlap.
C2_BoxesDisjoint ==
    Done => \A a \in Ids : \A b \in Ids :
                a # b => /\ Depth(a) = Depth(b) => Obj(a).y = Obj(b).y /\ ApartX(a, b)
                         /\ ApartX(a, b) \/ ApartY(a, b)

\* A returned layout with two cousins: same depth, different parents.
C2_Witness ==
    /\ Done
    /\ \E a \in Ids : \E b \in Ids :
        /\ Depth(a) = Depth(b)
        /\ Obj(a).parent # Obj(b).parent
        /\ Obj(a).width # Obj(b).width

\* C3: after normalization every node box lies inside the diagram:
\* 0 <= finalX - width/2, finalX + width/2 <= total width, 0 <= y and
\* y + nodeHeight <= total height.
C3_BoxesInsideDiagram ==
    Done => \A a \in Ids :
                /\ 0 <= Left(a)
                /\ Right(a) <= result.width
                /\ 0 <= Obj(a).y
                /\ Obj(a).y + nodeHeight <= result.height

\* A returned layout of three levels in which a child is placed left of the root.
C3_Witness ==
    /\ Done
    /\ \E a \in Ids : Depth(a) = 2
    /\ \E a \in Ids : Obj(a).x < 0

\* C4: the returned width and height leave exactly padding (40) on each side of
\* the node boxes: the least left edge is 40, the greatest right edge is
\* width - 40, the least y is 40 and the greatest y + nodeHeight is height - 40.
C4_UniformMargin ==
    Done => /\ SetMin({Left(a) : a \in Ids}) = padding
            /\ SetMax({Right(a) : a \in Ids}) = result.width - padding
            /\ SetMin({Obj(a).y : a \in Ids}) = padding
            /\ SetMax({Obj(a).y + nodeHeight : a \in Ids}) = result.height - padding

\* A returned layout of three levels whose root is narrower than its subtree.
C4_Witness ==
    /\ Done
    /\ \E a \in Ids : Depth(a) = 2
    /\ \E a \in Ids : Obj(a).parent = Null /\ Obj(a).width > MAX_NODE_WIDTH

\* C5: the width of the box drawn for every node of the result, leaf or not, is
\* clamp(topic.length * 8 + 20, 80, 220), so it never exceeds MAX_NODE_WIDTH.
C5_BoxWidthIsClampedLabelWidth ==
    Done => \A a \in Ids :
                /\ Obj(a).width = DynamicNodeWidth(mindMap.topic[Obj(a).node])
                /\ Obj(a).width <= MAX_NODE_WIDTH

\* C6: every node's y is depth * (nodeHeight + verticalGap) + padding, so nodes
\* of the same depth have the same y and a deeper node has a greater y.
C6_YFromDepth ==
    Done => /\ \A a \in Ids : Obj(a).y = Depth(a) * (nodeHeight + verticalGap) + padding
            /\ \A a \in Ids : \A b \in Ids :
                /\ Depth(a) = Depth(b) => Obj(a).y = Obj(b).y
                /\ Depth(a) < Depth(b) => Obj(a).y < Obj(b).y

\* A returned layout with a node at depth 2 or more.
C6_Witness == Done /\ \E a \in Ids : Depth(a) >= 2

\* The k-th node of a returned layout: its id, finalX, y and width.
Returned(ln, res, k) ==
    LET nd == ln[res.nodes[k]]
    IN  [id |-> nd.id, finalX |-> nd.finalX, y |-> nd.y, width |-> nd.width]

\* C7: a layout call on a tree structurally identical to that of an earlier call
\* returns the same id, finalX, y and width for corresponding nodes and the same
\* total width and height, whatever calls were made before.
C7_Deterministic ==
    (Done /\ prev.set) =>
        /\ Len(result.nodes) = Len(prev.result.nodes)
        /\ \A k \in 1..Len(result.nodes) :
              Returned(lnodes, result, k) = Returned(prev.lnodes, prev.result, k)
        /\ result.width = prev.result.width
        /\ result.height = prev.result.height

\* A second layout of a tree of several nodes has returned.
C7_Witness == Done /\ prev.set /\ Len(result.nodes) >= 3 /\ Len(prev.result.nodes) >= 3

\* C8: for a tree that is only a root, simpleTreeLayout returns one node, total
\* width = the root's box width + 2 * padding and total height = nodeHeight +
\* 2 * padding.
C8_SingleNode ==
    (Done /\ mindMap.n = 1) =>
        /\ Len(result.nodes) = 1
        /\ result.width = Obj(result.nodes[1]).width + 2 * padding
        /\ Obj(result.nodes[1]).width = DynamicNodeWidth(mindMap.topic[1])
        /\ result.height = nodeHeight + 2 * padding

\* The layout of a single root with a topic between the width limits has returned.
C8_Witness == Done /\ mindMap.n = 1 /\ mindMap.topic[1].length = 12

\* C9: when a node of the input is reachable from itself through children, the
\* layout call ends with InvalidTreeError and returns no result.
C9_CycleRaisesInvalidTreeError ==
    (pc = "idle" /\ mindMap.n > 0 /\ IsCyclic(mindMap)) =>
        error = "InvalidTreeError" /\ result = EmptyResult

\* C10: when a layout call fails, the component ends in the placeholder state
\* with the empty result: no uncaught exception reaches it.
C10_FailureEndsInPlaceholder ==
    error # "none" => view = "placeholder" /\ result = EmptyResult

\* C11: a node whose label is empty or is not a string is laid out as a label of
\* length 0: the call raises no error and the node's box gets the minimum width
\* MIN_NODE_WIDTH.  Checked on the leaves, whose width stays the box width.
C11_DegenerateLabelGetsMinWidth ==
    (pc = "idle" /\ mindMap.n > 0 /\ ~IsCyclic(mindMap)) =>
        \A i \in 1..mindMap.n :
            (mindMap.topic[i].kind # "string" \/ mindMap.topic[i].length = 0) =>
                /\ error = "none"
                /\ \E id \in Ids :
                    /\ Obj(id).node = i
                    /\ Obj(id).children = <<>> => Obj(id).width = MIN_NODE_WIDTH

\* C12: without a mind map the component never enters simpleTreeLayout: no
\* LayoutNode is built and no call is pending; once rendered, the layout result
\* is the empty result and the placeholder is shown.
C12_AbsentMapShowsPlaceholder ==
    mindMap = NoMap =>
        /\ pc \in {"render", "idle"}
        /\ lnodes = <<>>
        /\ calls = <<>>
        /\ pc = "idle" => result = EmptyResult /\ view = "placeholder" /\ error = "none"

\* The placeholder is shown after the mind map was taken away from a component
\* that had one.
C12_Witness ==
    pc = "idle" /\ mindMap = NoMap /\ view = "placeholder" /\ mapRef # 0

----------------------------------------------------------------------------
\* The LayoutNode tree is complete: buildLayoutTree(root) has returned (line 56).
BuiltTree == pc \in {"firstWalk", "secondWalk", "normalize"} \/ Done

\* The place of v in the sequence seq.
IndexIn(seq, v) == CHOOSE k \in 1..Len(seq) : seq[k] = v

RECURSIVE PreOrder(_, _)
RECURSIVE PreOrderAll(_, _)
\* The source nodes under node in pre-order: the order in which the recursion of
\* line 52 reaches them.
PreOrder(m, node) == <<node>> \o PreOrderAll(m, ChildrenOf(m, node))
PreOrderAll(m, ch) ==
    IF ch = <<>> THEN <<>> ELSE PreOrder(m, Head(ch)) \o PreOrderAll(m, Tail(ch))

\* C13: the returned nodes sequence holds every node of the tree exactly once,
\* in breadth-first order: depth never decreases along it, the children of one
\* parent come in source order, nodes of one depth follow the order of their
\* parents, and every parent comes before each of its children.
C13_BreadthFirstOrder ==
    Done =>
        LET out == result.nodes
            at(k) == Obj(out[k])
        IN  /\ Len(out) = mindMap.n
            /\ {out[k] : k \in 1..Len(out)} = Ids
            /\ \A i \in 1..mindMap.n :
                  Cardinality({k \in 1..Len(out) : at(k).node = i}) = 1
            /\ \A k \in 1..Len(out) : \A l \in 1..Len(out) :
                  k < l =>
                    /\ Depth(out[k]) <= Depth(out[l])
                    /\ (at(k).parent # Null /\ Depth(out[k]) = Depth(out[l])) =>
                          IF at(k).parent = at(l).parent
                          THEN LET src == mindMap.kids[Obj(at(k).parent).node]
                               IN  IndexIn(src, at(k).node) < IndexIn(src, at(l).node)
                          ELSE IndexIn(out, at(k).parent) < IndexIn(out, at(l).parent)
            /\ \A k \in 1..Len(out) :
                  at(k).parent # Null => IndexIn(out, at(k).parent) < k

\* A returned sequence that differs from the order of creation: a node of depth 2
\* was built before a node of depth 1 and comes after it.
C13_Witness ==
    /\ Done
    /\ \E k \in 1..Len(result.nodes) : \E l \in 1..Len(result.nodes) :
        k < l /\ result.nodes[k] > result.nodes[l]

\* C14: the tree built by buildLayoutTree is isomorphic to the source: one
\* LayoutNode per source node, its children referring to the source children in
\* the same order (none when the children field is missing), parent being the
\* LayoutNode whose children hold it and null only for the root, and, until
\* normalization moves it, y = depth * (nodeHeight + verticalGap) for the
\* distance depth from the root.
C14_IsomorphicToSource ==
    BuiltTree =>
        /\ Cardinality(Ids) = mindMap.n
        /\ {Obj(a).node : a \in Ids} = 1..mindMap.n
        /\ \A a \in Ids :
            /\ [k \in 1..Len(Obj(a).children) |-> Obj(Obj(a).children[k]).node]
                   = ChildrenOf(mindMap, Obj(a).node)
            /\ Obj(a).parent = Null <=> Obj(a).node = 1
            /\ \A b \in Ids :
                  Obj(a).parent = b <=>
                      \E k \in 1..Len(Obj(b).children) : Obj(b).children[k] = a
            /\ pc \in {"firstWalk", "secondWalk"} => Obj(a).y = InitialY(Depth(a))

\* A complete tree of three levels with a node of several children and a leaf
\* whose source node has no children field.
C14_Witness ==
    /\ pc = "secondWalk"
    /\ \E a \in Ids : Len(Obj(a).children) >= 2
    /\ \E a \in Ids : Depth(a) = 2 /\ ~mindMap.present[Obj(a).node]

\* C15: within one layout call the ids are the pre-order indices 0..n-1 of the n
\* nodes: the node reached k-th by the recursion has id k - 1, the root has id 0
\* and a parent's id is smaller than its children's; this holds in every call,
\* the counter starting at 0 each time.
C15_IdsArePreOrderIndices ==
    /\ pc = "build" => Ids = 0..(idCounter - 1)
    /\ BuiltTree =>
        /\ Ids = 0..(mindMap.n - 1)
        /\ Len(PreOrder(mindMap, 1)) = mindMap.n
        /\ \A a \in Ids :
            /\ Obj(a).id = a
            /\ Obj(a).node = PreOrder(mindMap, 1)[a + 1]
            /\ Obj(a).parent # Null => Obj(a).parent < a

\* The layout of a branching tree has been built a second time.
C15_Witness ==
    /\ BuiltTree
    /\ prev.set
    /\ \E a \in Ids : Len(Obj(a).children) >= 2 /\ Obj(a).parent # Null

\* C16: no step of a layout call changes the source tree: topics, children
\* sequences and the presence of the children field are the same after every
\* step from the render to the return.
C16_SourceUnchanged == [][pc # "idle" => mindMap' = mindMap]_vars

\* A layout has returned for a tree with a leaf that has no children field.
C16_Witness ==
    /\ Done
    /\ mindMap.n >= 3
    /\ \E i \in 1..mindMap.n : ~mindMap.present[i]

\* C19: every node with children is centred over the block of its children: its
\* finalX is the midpoint of the left edge of the first child's subtree interval
\* and the right edge of the last child's.
C19_CenteredOverChildren ==
    Done => \A a \in Ids :
                LET ch == Obj(a).children
                IN  ch # <<>> => 2 * Obj(a).finalX = Left(ch[1]) + Right(ch[Len(ch)])

\* A returned layout with a node over three children of different subtree widths.
C19_Witness ==
    /\ Done
    /\ \E a \in Ids :
        LET ch == Obj(a).children
        IN  Len(ch) = 3 /\ Obj(ch[1]).width # Obj(ch[3]).width

\* C20: an only child has the finalX of its parent; two children of equal
\* subtree width lie at finalX - d and finalX + d of their parent for one d > 0.
C20_SmallCasesSymmetric ==
    Done => \A a \in Ids :
                LET ch == Obj(a).children
                IN  /\ Len(ch) = 1 => Obj(ch[1]).finalX = Obj(a).finalX
                    /\ (Len(ch) = 2 /\ Obj(ch[1]).width = Obj(ch[2]).width) =>
                          /\ Obj(a).finalX - Obj(ch[1]).finalX = Obj(ch[2]).finalX - Obj(a).finalX
                          /\ Obj(ch[2]).finalX - Obj(a).finalX > 0

\* The returned layout of a root with two children, each with one child.
C20_Witness ==
    /\ Done
    /\ mindMap.n = 5
    /\ LET r == LayoutRoot(lnodes)
           ch == Obj(r).children
       IN  /\ Len(ch) = 2
           /\ Obj(ch[1]).width = Obj(ch[2]).width
           /\ Len(Obj(ch[1]).children) = 1
           /\ Len(Obj(ch[2]).children) = 1

\* C18: no interaction with the rendered diagram changes the layout: a step
\* taken while the diagram is shown and the mindMap reference stays the same
\* (wheel, mouse down / move / up / leave, hover, export) leaves every
\* LayoutNode, the bounds and the returned nodes, width and height as they are
\* and starts no layout call; the layout is computed again only for another
\* mindMap reference.
C18_InteractionsKeepLayout ==
    [][(pc = "idle" /\ view = "diagram" /\ mapRef' = mapRef) =>
          /\ lnodes' = lnodes
          /\ result' = result
          /\ bounds' = bounds
          /\ mindMap' = mindMap
          /\ pc' = "idle"
          /\ view' = "diagram"]_vars

\* A diagram laid out twice that has been zoomed and panned, with a node hovered
\* and a pan in progress.
C18_Witness ==
    /\ Done
    /\ prev.set
    /\ transform.k # ScaleOne
    /\ transform.x # 0
    /\ hoveredNodeId # Null
    /\ isPanning
    /\ panStart.y # 0

\* C17: two layout invocations on the same tree, their steps interleaved, share
\* no mutable state: a step of the running invocation leaves every LayoutNode,
\* the bounds and the result of the other as they are, and suspending and
\* resuming hands each invocation exactly its own state back; each numbers its
\* own nodes from 0, and when both have returned they hold equal layouts.
C17_InvocationsIndependent ==
    /\ [](/\ pc = "build" => Ids = 0..(idCounter - 1)
          /\ other.pc = "build" => DOMAIN other.lnodes = 0..(other.idCounter - 1)
          /\ (pc = "idle" /\ other.pc = "idle") =>
                lnodes = other.lnodes /\ result = other.result)
    /\ [][\/ other' = other
          \/ other' = Locals /\ Locals' = other]_vars

\* Both invocations are under way on a tree of three nodes, one in its second
\* walk and the other, suspended, in its first.
C17_Witness ==
    /\ mindMap.n >= 3
    /\ pc = "secondWalk"
    /\ other.pc = "firstWalk"
    /\ Len(other.calls) >= 2

----------------------------------------------------------------------------
\* firstWalk(layoutRoot) has returned (line 58).
WalkedTree == pc \in {"secondWalk", "normalize"} \/ Done

\* The box width buildLayoutTree gave the node (line 38).
Box(a) == DynamicNodeWidth(mindMap.topic[Obj(a).node])

\* C21: after firstWalk the subtree width of a leaf is its box width, and that
\* of a node with children c_1..c_n is max(box width, sum of the children's
\* subtree widths + (n - 1) * horizontalGap); so it is never below the box width.
C21_SubtreeWidthRecurrence ==
    WalkedTree =>
        \A a \in Ids :
            LET ch == Obj(a).children
            IN  /\ ch = <<>> => Obj(a).width = Box(a)
                /\ ch # <<>> =>
                      Obj(a).width =
                          Max(Box(a), SumWidths(lnodes, ch) + (Len(ch) - 1) * horizontalGap)
                /\ Obj(a).width >= Box(a)

\* After firstWalk: a node widened by its children next to a node whose own box
\* is wider than its children's block.
C21_Witness ==
    /\ WalkedTree
    /\ \E a \in Ids : Obj(a).children # <<>> /\ Obj(a).width > Box(a)
    /\ \E a \in Ids :
          /\ Len(Obj(a).children) >= 2
          /\ Obj(a).width = Box(a)
          /\ Box(a) > SumWidths(lnodes, Obj(a).children)

\* C22: for consecutive children p, c of one node the offsets set by firstWalk
\* satisfy c.x - p.x = p.width / 2 + horizontalGap + c.width / 2, so their subtree
\* intervals are exactly horizontalGap apart; the first child's offset is
\* -span / 2 + width / 2 for the span of the children's block.
C22_SiblingOffsets ==
    WalkedTree =>
        \A a \in Ids :
            LET ch == Obj(a).children
                span == SumWidths(lnodes, ch) + (Len(ch) - 1) * horizontalGap
            IN  /\ ch # <<>> => Obj(ch[1]).x = Half(Obj(ch[1]).width) - Half(span)
                /\ \A k \in 1..(Len(ch) - 1) :
                      /\ Obj(ch[k + 1]).x - Obj(ch[k]).x
                            = Half(Obj(ch[k]).width) + horizontalGap + Half(Obj(ch[k + 1]).width)
                      /\ (Obj(ch[k + 1]).x - Half(Obj(ch[k + 1]).width))
                            - (Obj(ch[k]).x + Half(Obj(ch[k]).width)) = horizontalGap

\* After firstWalk: three children of different subtree widths under one node.
C22_Witness ==
    /\ WalkedTree
    /\ \E a \in Ids :
        LET ch == Obj(a).children
        IN  /\ Len(ch) = 3
            /\ Obj(ch[1]).width # Obj(ch[2]).width
            /\ Obj(ch[2]).children # <<>>

\* C23 as claimed: when firstWalk has finished, every leaf has subtree width equal
\* to its box width and relative offset x = 0.
C23_LeavesAtZero ==
    WalkedTree =>
        \A a \in Ids :
            Obj(a).children = <<>> => Obj(a).width = Box(a) /\ Obj(a).x = 0

\* The parent's loop of lines 82-85 has not yet run for the children of b: the
\* call firstWalk(b) or one of an ancestor of b is pending, or firstWalk(b) is
\* still before its line 80.
RECURSIVE LayoutAncOrSelf(_)
LayoutAncOrSelf(b) ==
    IF Obj(b).parent = Null THEN {b} ELSE {b} \cup LayoutAncOrSelf(Obj(b).parent)

Unplaced(b) ==
    /\ pc = "firstWalk"
    /\ \E k \in 1..Len(calls) :
        \/ calls[k].fn = "place" /\ calls[k].node = b
        \/ calls[k].fn = "firstWalk" /\ calls[k].node \in LayoutAncOrSelf(b)

\* C23 amended: a leaf keeps its box width as subtree width through firstWalk,
\* and its x is 0 until its parent's loop places it; when firstWalk has finished
\* its x is the offset its parent gave it, which is 0 for a root and for an only
\* child.
C23_LeafWidthAndInitialOffset ==
    (pc = "firstWalk" \/ WalkedTree) =>
        \A a \in Ids :
            Obj(a).children = <<>> =>
                /\ Obj(a).width = Box(a)
                /\ (\/ Obj(a).parent = Null
                    \/ Len(Obj(Obj(a).parent).children) = 1
                    \/ Unplaced(Obj(a).parent)) => Obj(a).x = 0

\* firstWalk has finished with an only child that is a leaf, and with a leaf
\* moved off 0 by its parent.
C23_Witness ==
    /\ WalkedTree
    /\ \E a \in Ids :
          /\ Obj(a).children = <<>>
          /\ Obj(a).parent # Null
          /\ Len(Obj(Obj(a).parent).children) = 1
    /\ \E a \in Ids : Obj(a).children = <<>> /\ Obj(a).x # 0

\* C24: for every node but the root, finalX - parent.finalX is the offset x set by
\* firstWalk: in secondWalk for each node it has reached, when secondWalk has
\* returned, and in the returned layout, normalization having moved all nodes by
\* the same amount.
C24_FinalXIsParentPlusOffset ==
    /\ (pc = "normalize" /\ nodes = <<>>) \/ Done =>
          \A a \in Ids :
              Obj(a).parent # Null => Obj(a).finalX - Obj(Obj(a).parent).finalX = Obj(a).x
    /\ pc = "secondWalk" =>
          \A a \in Ids :
              (/\ Obj(a).parent # Null
               /\ \A b \in LayoutAncOrSelf(a) : \A k \in 1..Len(calls) : calls[k].node # b) =>
                  Obj(a).finalX - Obj(Obj(a).parent).finalX = Obj(a).x

\* A returned layout with a node of depth 2 whose offset and whose parent's
\* offset are both not 0, the minimum having been moved to the padding.
C24_Witness ==
    /\ Done
    /\ bounds.minX < 0
    /\ \E a \in Ids :
          /\ Depth(a) = 2
          /\ Obj(a).x # 0
          /\ Obj(Obj(a).parent).x # 0

RECURSIVE AbsX(_)
\* The sum of the offsets x from the root down to a: the finalX secondWalk gives a.
AbsX(a) == IF Obj(a).parent = Null THEN Obj(a).x ELSE Obj(a).x + AbsX(Obj(a).parent)

\* The nodes the loop of lines 63-69 has shifted.
Shifted == {nodes[k] : k \in 1..Len(nodes)}

\* C25: normalization comes after both walks and moves each node once: while
\* firstWalk or secondWalk runs nothing is in nodes, no y changes and no finalX
\* changes but that of the node secondWalk is at; during the loop the bounds stay
\* as secondWalk left them, and a node is moved by (padding - minX, padding) from
\* its walk position exactly when it is in nodes, where it occurs once.
C25_NormalizedOnceAfterWalks ==
    /\ [](/\ pc \in {"firstWalk", "secondWalk"} =>
                /\ nodes = <<>>
                /\ \A a \in Ids : Obj(a).y = InitialY(Depth(a))
          /\ pc = "firstWalk" => \A a \in Ids : Obj(a).finalX = 0
          /\ (pc = "normalize" \/ Done) =>
                /\ Cardinality(Shifted) = Len(nodes)
                /\ \A a \in Ids :
                      IF a \in Shifted
                      THEN /\ Obj(a).finalX = AbsX(a) - bounds.minX + padding
                           /\ Obj(a).y = InitialY(Depth(a)) + padding
                      ELSE /\ Obj(a).finalX = AbsX(a)
                           /\ Obj(a).y = InitialY(Depth(a)))
    /\ [][/\ pc = "normalize" => bounds' = bounds
          /\ pc \in {"firstWalk", "secondWalk"} =>
                \A a \in Ids :
                    /\ lnodes'[a].y = lnodes[a].y
                    /\ (pc = "firstWalk" \/ a # Head(calls).node) =>
                          lnodes'[a].finalX = lnodes[a].finalX]_vars

\* The loop has shifted some nodes of a tree and not yet the others; the minimum
\* found by secondWalk is left of 0.
C25_Witness ==
    /\ pc = "normalize"
    /\ Len(nodes) >= 2
    /\ Len(queue) >= 2
    /\ bounds.minX < 0

\* C27: the subtree interval of every node lies inside that of its parent, hence
\* inside the root's; the bounds found by secondWalk, which start at 0, are
\* minX = -root.width / 2 and maxX = root.width / 2, the returned width is the
\* root's subtree width + 2 * padding and the root's normalized finalX is half
\* the returned width.
C27_RootIntervalIsTheBounds ==
    Done =>
        LET r == LayoutRoot(lnodes)
        IN  /\ \A a \in Ids :
                  Obj(a).parent # Null =>
                      /\ Left(Obj(a).parent) <= Left(a)
                      /\ Right(a) <= Right(Obj(a).parent)
            /\ bounds.minX = -Half(Obj(r).width)
            /\ bounds.maxX = Half(Obj(r).width)
            /\ result.width = Obj(r).width + 2 * padding
            /\ 2 * Obj(r).finalX = result.width

\* A returned layout of three levels whose root is wider than its own box and
\* has a child wider than the child's own box.
C27_Witness ==
    /\ Done
    /\ LET r == LayoutRoot(lnodes)
       IN  /\ Obj(r).width > Box(r)
           /\ \E a \in Ids :
                 /\ Obj(a).parent = r
                 /\ Obj(a).children # <<>>
                 /\ Obj(a).width > Box(a)

\* C28: from scale 1, whatever wheel events arrive, the scale k of the view
\* transform stays within [0.2, 3] and so is never 0; a wheel event that would
\* take k beyond a limit leaves it at the limit.
C28_ScaleWithinLimits ==
    /\ [](/\ ~Above3(transform.k)
          /\ ~Below02(transform.k)
          /\ transform.k.base \in {"1", "3", "0.2"})
    /\ [][/\ transform.k = ScaleMax =>
                transform'.k \in {ScaleMax, [base |-> "3", exp |-> -1]}
          /\ transform.k = ScaleMin =>
                transform'.k \in {ScaleMin, [base |-> "0.2", exp |-> 1]}]_vars

\* The scale has been held at the lower limit and has then been raised, wheel
\* event by wheel event, to just under the upper one.
C28_Witness == Done /\ transform.k = [base |-> "0.2", exp |-> ExpBelow15]

----------------------------------------------------------------------------
\* The parent of source node i, and its distance from the root.
SourceParent(m, i) == CHOOSE p \in 1..m.n : \E k \in 1..Len(m.kids[p]) : m.kids[p][k] = i

RECURSIVE SourceDepth(_, _)
SourceDepth(m, i) == IF i = 1 THEN 0 ELSE 1 + SourceDepth(m, SourceParent(m, i))

\* C26: addMindMapToCsv walks the source tree: the rows it has written are the
\* first nodes of the tree in pre-order, the finished text has exactly one row
\* per node, a node's row before its children's and the children in source
\* order, and the level of each row is the node's depth, 0 for the root; the
\* layout, run before, after or in between, has no part in it.
C26_CsvRowsArePreOrder ==
    /\ csvPc \in {"walk", "done"} =>
          /\ Len(csv) <= mindMap.n
          /\ \A k \in 1..Len(csv) :
                /\ csv[k].type = "MindMap"
                /\ csv[k].node = PreOrder(mindMap, 1)[k]
                /\ csv[k].level = SourceDepth(mindMap, csv[k].node)
    /\ csvPc = "done" =>
          /\ Len(csv) = mindMap.n
          /\ \A i \in 1..mindMap.n : Cardinality({k \in 1..Len(csv) : csv[k].node = i}) = 1
          /\ \A k \in 2..Len(csv) :
                \E j \in 1..(k - 1) : csv[j].node = SourceParent(mindMap, csv[k].node)

\* The text is finished for a tree of three levels the layout of which has
\* returned its nodes in another order than the rows.
C26_Witness ==
    /\ csvPc = "done"
    /\ Done
    /\ \E k \in 1..Len(csv) : csv[k].level = 2
    /\ \E k \in 1..Len(csv) : Obj(result.nodes[k]).node # csv[k].node

----------------------------------------------------------------------------
\* C29: handleGenerate.  A request is issued only for a non-blank topic, with
\* isLoading set, error, studyMaterials and quizAnswers cleared and topic set to
\* it; a blank topic changes the error and nothing else; when a request settles,
\* isLoading is false and exactly one of studyMaterials and error is set; at most
\* one request is in flight, it is the one for the topic on screen, and materials
\* on screen are those generated for the topic on screen.
C29_GenerateLifeCycle ==
    /\ [](/\ Len(requests) <= 1
          /\ isLoading <=> requests # <<>>
          /\ isLoading => requests[1] = appTopic /\ ~studyMaterials.set /\ appError = NoError
          /\ studyMaterials.set => studyMaterials.for = appTopic)
    /\ [][/\ Len(requests') > Len(requests) =>
                /\ requests' = Append(requests, appTopic')
                /\ Trim(appTopic') # ""
                /\ isLoading'
                /\ appError' = NoError
                /\ studyMaterials' = NoMaterials
                /\ quizAnswers' = {}
          /\ Len(requests') < Len(requests) =>
                /\ ~isLoading'
                /\ studyMaterials'.set <=> appError' = NoError
                /\ appError' \in {NoError, GenerateError}
          /\ (appError' = EnterTopicError /\ appError # EnterTopicError) =>
                UNCHANGED <<appTopic, studyMaterials, isLoading, activeTab, quizAnswers,
                            stored, requests>>]_vars

\* A generation is in flight for another topic than that of the session in the
\* store, which holds an answer of the quiz.
C29_Witness ==
    /\ isLoading
    /\ requests = <<appTopic>>
    /\ stored.kind = "session"
    /\ stored.topic # appTopic
    /\ stored.quizAnswers # {}

\* C30: the session in the store.  It is written only from a state with topic and
\* studyMaterials set, as the session of that state, so a stored session has
\* both; a step that leaves a generation in flight or failed leaves the store as
\* it was; the first render restores exactly the topic, studyMaterials and
\* quizAnswers of a stored session, and removes an item it cannot read, leaving
\* the state empty.
C30_SessionPersistence ==
    /\ [](stored.kind = "session" => stored.topic # "" /\ stored.studyMaterials.set)
    /\ [][/\ stored' # stored =>
                \/ appPc = "mount" /\ stored.kind = "corrupt" /\ stored' = NoEntry
                \/ /\ appTopic' # ""
                   /\ studyMaterials'.set
                   /\ stored' = SessionEntry(appTopic', studyMaterials', quizAnswers')
          /\ (isLoading' \/ appError' = GenerateError) => stored' = stored
          /\ (appPc = "mount" /\ stored.kind = "session") =>
                /\ appTopic' = stored.topic
                /\ studyMaterials' = stored.studyMaterials
                /\ quizAnswers' = stored.quizAnswers
          /\ (appPc = "mount" /\ stored.kind = "corrupt") =>
                /\ stored' = NoEntry
                /\ appTopic' = ""
                /\ studyMaterials' = NoMaterials
                /\ quizAnswers' = {}]_vars

\* After a restored session with an answered question, a generation for another
\* topic has failed: the store holds the restored session.
C30_Witness ==
    /\ appError = GenerateError
    /\ stored.kind = "session"
    /\ stored.topic # appTopic
    /\ stored.quizAnswers # {}

====
